---- MODULE Spec2Model ----
(***************************************************************************)
(* SIGACTS backend: the ingestion pipeline (DataProcessor.loadData), the   *)
(* query methods of DataProcessor and the Express server that gates them.  *)
(*                                                                         *)
(* The repository holds two DataProcessor classes:                         *)
(*   variant 1  src/data-processor.js            (the module server.js     *)
(*              requires: require('./data-processor'))                     *)
(*   variant 2  src/server.js lines 193-433      (normalises M/D/YYYY,     *)
(*              sorts the date keys as strings, reads the heatmap from a   *)
(*              JSON document)                                             *)
(* The variable `variant` says which class the engine is an instance of.   *)
(*                                                                         *)
(* JavaScript strings that the code takes apart (date_time_occ, date,      *)
(* time) are sequences of one-character strings; the classification        *)
(* fields, which the code only compares for equality, are TLA+ strings.    *)
(* Shutdown signal handling (SIGINT) is outside the model.                 *)
(***************************************************************************)
EXTENDS Integers, Sequences, FiniteSets, TLC

\* The longest CSV the model streams through loadData.
MaxRows == 3

\* The value of an arithmetic result that is not a number (undefined++,
\* parseInt of a string with no leading digit, an Invalid Date).  Every real
\* count, hour and time value of the model is >= 0.
NaN == -1

(***************************************************************************)
(* String.prototype and global functions used by the code                  *)
(***************************************************************************)
Digit == {"0", "1", "2", "3", "4", "5", "6", "7", "8", "9"}

DigitVal(c) ==
  CASE c = "0" -> 0 [] c = "1" -> 1 [] c = "2" -> 2 [] c = "3" -> 3
    [] c = "4" -> 4 [] c = "5" -> 5 [] c = "6" -> 6 [] c = "7" -> 7
    [] c = "8" -> 8 [] c = "9" -> 9

\* UTF-16 code unit of the characters the model's strings are made of.
CharCode(c) ==
  CASE c = " " -> 32 [] c = "-" -> 45 [] c = "/" -> 47 [] c = ":" -> 58
    [] OTHER -> 48 + DigitVal(c)

\* s.indexOf(c), 1-based; 0 when c does not occur.
IndexOf(s, c) ==
  IF \E i \in 1..Len(s) : s[i] = c
  THEN CHOOSE i \in 1..Len(s) : s[i] = c /\ \A j \in 1..(i - 1) : s[j] # c
  ELSE 0

\* s.includes(c)
Includes(s, c) == IndexOf(s, c) # 0

\* s.split(c): the pieces between the occurrences of c (''.split(c) is ['']).
RECURSIVE Split(_, _)
Split(s, c) ==
  LET i == IndexOf(s, c)
  IN  IF i = 0 THEN <<s>>
      ELSE <<SubSeq(s, 1, i - 1)>> \o Split(SubSeq(s, i + 1, Len(s)), c)

\* arr[i] || '' for a 0-based index i of an array of strings.
AtOrEmpty(arr, i) == IF i + 1 <= Len(arr) THEN arr[i + 1] ELSE <<>>

\* s.padStart(2, '0')
PadStart2(s) ==
  IF Len(s) >= 2 THEN s
  ELSE IF Len(s) = 1 THEN <<"0">> \o s
  ELSE <<"0", "0">>

\* The number a string of decimal digits denotes.
RECURSIVE DigitsToNat(_)
DigitsToNat(s) ==
  IF s = <<>> THEN 0
  ELSE 10 * DigitsToNat(SubSeq(s, 1, Len(s) - 1)) + DigitVal(s[Len(s)])

AllDigits(s) == \A i \in 1..Len(s) : s[i] \in Digit

\* parseInt(s): the number its longest prefix of decimal digits denotes, NaN
\* when that prefix is empty.  (No modelled string starts with white space,
\* a sign or 0x.)
parseInt(s) ==
  LET n == CHOOSE k \in 0..Len(s) :
             /\ \A i \in 1..k : s[i] \in Digit
             /\ (k = Len(s) \/ s[k + 1] \notin Digit)
  IN  IF n = 0 THEN NaN ELSE DigitsToNat(SubSeq(s, 1, n))

\* a < b in the order of Array.prototype.sort() without a comparator:
\* by UTF-16 code units, a proper prefix first.
RECURSIVE StrLess(_, _)
StrLess(a, b) ==
  IF b = <<>> THEN FALSE
  ELSE IF a = <<>> THEN TRUE
  ELSE IF CharCode(a[1]) # CharCode(b[1]) THEN CharCode(a[1]) < CharCode(b[1])
  ELSE StrLess(Tail(a), Tail(b))

\* Array.from(set).sort() of distinct strings: ascending by StrLess.
RECURSIVE SortLex(_)
SortLex(set) ==
  IF set = {} THEN <<>>
  ELSE LET m == CHOOSE x \in set : \A y \in set \ {x} : StrLess(x, y)
       IN  <<m>> \o SortLex(set \ {m})

\* The elements of a sequence.
Range(s) == {s[i] : i \in 1..Len(s)}

(***************************************************************************)
(* Calendar dates and new Date(string)                                     *)
(***************************************************************************)
\* YYYY-MM-DD: 4-2-2 digit groups separated by '-'.
IsCanonicalDate(s) ==
  /\ Len(s) = 10
  /\ s[5] = "-" /\ s[8] = "-"
  /\ \A i \in {1, 2, 3, 4, 6, 7, 9, 10} : s[i] \in Digit

\* M/D/YYYY with or without zero padding.
IsSlashDate(s) ==
  LET parts == Split(s, "/")
  IN  /\ Len(parts) = 3
      /\ \A i \in 1..3 : parts[i] # <<>> /\ AllDigits(parts[i])
      /\ Len(parts[1]) <= 2 /\ Len(parts[2]) <= 2 /\ Len(parts[3]) = 4

\* Days from 1970-01-01 to the civil date y-m-d.
DaysFromCivil(y, m, d) ==
  LET yy  == IF m <= 2 THEN y - 1 ELSE y
      era == yy \div 400
      yoe == yy - era * 400
      mp  == IF m > 2 THEN m - 3 ELSE m + 9
      doy == (153 * mp + 2) \div 5 + d - 1
      doe == yoe * 365 + yoe \div 4 - yoe \div 100 + doy
  IN  era * 146097 + doe - 719468

\* The calendar day a date string denotes, in either encoding; NaN when the
\* string is neither.
CalendarDay(s) ==
  IF IsCanonicalDate(s)
  THEN DaysFromCivil(DigitsToNat(SubSeq(s, 1, 4)), DigitsToNat(SubSeq(s, 6, 7)),
                     DigitsToNat(SubSeq(s, 9, 10)))
  ELSE IF IsSlashDate(s)
  THEN LET parts == Split(s, "/")
       IN  DaysFromCivil(DigitsToNat(parts[3]), DigitsToNat(parts[1]),
                         DigitsToNat(parts[2]))
  ELSE NaN

\* new Date(s).getTime() in hours, for a process whose local time is tz hours
\* ahead of UTC: a date-only ISO string is midnight UTC, an M/D/YYYY string is
\* midnight local time, the empty string is an Invalid Date.
DateValue(s, tz) ==
  IF IsCanonicalDate(s) THEN CalendarDay(s) * 24
  ELSE IF IsSlashDate(s) THEN CalendarDay(s) * 24 - tz
  ELSE NaN

\* The local-time offsets (hours ahead of UTC) of the hosts modelled.
TZOffsets == {0, 3}

(***************************************************************************)
(* The CSV rows                                                            *)
(***************************************************************************)
\* "12/5/2007 02:15:00"
TsSlash ==
  <<"1", "2", "/", "5", "/", "2", "0", "0", "7", " ",
    "0", "2", ":", "1", "5", ":", "0", "0">>
\* "2008-01-02 13:00:00"
TsIso ==
  <<"2", "0", "0", "8", "-", "0", "1", "-", "0", "2", " ",
    "1", "3", ":", "0", "0", ":", "0", "0">>
\* "2007-12-05 23:10:00" (the calendar day of TsSlash, in the other encoding)
TsIsoSameDay ==
  <<"2", "0", "0", "7", "-", "1", "2", "-", "0", "5", " ",
    "2", "3", ":", "1", "0", ":", "0", "0">>
\* "1/10/2008 24:00:00" (an hour outside 0..23)
TsHour24 ==
  <<"1", "/", "1", "0", "/", "2", "0", "0", "8", " ",
    "2", "4", ":", "0", "0", ":", "0", "0">>
\* '' (the column is missing or empty)
TsEmpty == <<>>

\* A parsed CSV row: the columns the queries read.  "" is a missing or empty
\* column.  (mgrs_X, mgrs_Y, Target Category, target, force_type and City are
\* copied into the incident and read by no query.)
Row(ts, type, category, province) ==
  [date_time_occ |-> ts, IncidentType |-> type, IncidentCategory |-> category,
   Province |-> province]

Rows ==
  { Row(TsSlash,      "Enemy Action",     "Direct Fire", "Baghdad"),
    Row(TsIso,        "Explosive Hazard", "IED",         "Basra"),
    Row(TsIsoSameDay, "Enemy Action",     "IED",         "Basra"),
    Row(TsHour24,     "Explosive Hazard", "7",           "Baghdad"),
    Row(TsSlash,      "constructor",      "IED",         "Baghdad"),
    Row(TsEmpty,      "",                 "",            "") }

\* x || fallback for a string column.
OrDefault(x, fallback) == IF x = "" THEN fallback ELSE x

\* The date portion of the timestamp as variant 2 stores it: M/D/YYYY
\* rewritten to YYYY-MM-DD with month and day padded, anything else as is.
FormatDate(datePart) ==
  IF Includes(datePart, "/")
  THEN LET parts == Split(datePart, "/")
       IN  IF Len(parts) = 3
           THEN parts[3] \o <<"-">> \o PadStart2(parts[1]) \o <<"-">>
                  \o PadStart2(parts[2])
           ELSE datePart
  ELSE datePart

\* The incident the 'data' handler builds from a row.
MakeIncident(v, row) ==
  LET dateTime == row.date_time_occ
      datePart == Split(dateTime, " ")[1]
      timePart == AtOrEmpty(Split(dateTime, " "), 1)
  IN  [date     |-> IF v = 2 THEN FormatDate(datePart) ELSE datePart,
       type     |-> OrDefault(row.IncidentType, "Unknown"),
       category |-> OrDefault(row.IncidentCategory, "N/A"),
       province |-> OrDefault(row.Province, "N/A"),
       time     |-> timePart]

(***************************************************************************)
(* State                                                                   *)
(***************************************************************************)
VARIABLES
  variant,       \* 1: src/data-processor.js, 2: the class in src/server.js
  pc,            \* where startServer / initializeData / loadData stand
  incidents,     \* loadData's local array
  allIncidents,  \* this.allIncidents
  dateIndex,     \* this.dateIndex: a Map, its entries in insertion order
  types,         \* this.types
  categories,    \* this.categories
  provinces,     \* this.provinces
  dates,         \* this.dates
  iraqBoundary,  \* this.iraqBoundary ("null" or the parsed document)
  heatmapData,   \* this.heatmapData of variant 2 (<<>>: null, <<doc>>: loaded)
  isLoaded,      \* this.isLoaded
  dataLoaded,    \* server.js: let dataLoaded
  fault,         \* the failure the environment has raised during load, if any
  resp           \* the last HTTP response sent

engineVars ==
  <<allIncidents, dateIndex, types, categories, provinces, dates, iraqBoundary,
    heatmapData, isLoaded>>

vars ==
  <<variant, pc, incidents, allIncidents, dateIndex, types, categories,
    provinces, dates, iraqBoundary, heatmapData, isLoaded, dataLoaded, fault,
    resp>>

NoResponse == [op |-> "none", status |-> 0]

\* The state after new DataProcessor() and `let dataLoaded = false`.
Init ==
  /\ variant \in {1, 2}
  /\ pc = "start"
  /\ incidents = <<>>
  /\ allIncidents = <<>>
  /\ dateIndex = <<>>
  /\ types = {}
  /\ categories = {}
  /\ provinces = {}
  /\ dates = <<>>
  /\ iraqBoundary = "null"
  /\ heatmapData = <<>>
  /\ isLoaded = FALSE
  /\ dataLoaded = FALSE
  /\ fault = "none"
  /\ resp = NoResponse

(***************************************************************************)
(* The date index (a Map)                                                  *)
(***************************************************************************)
\* Array.from(map.keys())
MapKeys(map) == [i \in 1..Len(map) |-> map[i].key]

\* map.has(k)
MapHas(map, k) == \E i \in 1..Len(map) : map[i].key = k

\* map.get(k) || []
MapGetOrEmpty(map, k) ==
  IF MapHas(map, k)
  THEN map[CHOOSE i \in 1..Len(map) : map[i].key = k].bucket
  ELSE <<>>

\* if (!map.has(k)) map.set(k, []); map.get(k).push(x)
MapPush(map, k, x) ==
  IF MapHas(map, k)
  THEN [i \in 1..Len(map) |->
          IF map[i].key = k
          THEN [key |-> k, bucket |-> Append(map[i].bucket, x)]
          ELSE map[i]]
  ELSE Append(map, [key |-> k, bucket |-> <<x>>])

(***************************************************************************)
(* loadData                                                                *)
(***************************************************************************)
\* The keys sorted ascending by DateValue, equal keys in their old order
\* (Array.prototype.sort is stable).
RECURSIVE StableSortByDate(_, _)
StableSortByDate(s, tz) ==
  IF s = <<>> THEN <<>>
  ELSE LET front == StableSortByDate(SubSeq(s, 1, Len(s) - 1), tz)
           x     == s[Len(s)]
           n     == Cardinality({i \in 1..Len(front) :
                                   DateValue(front[i], tz) <= DateValue(x, tz)})
       IN  SubSeq(front, 1, n) \o <<x>> \o SubSeq(front, n + 1, Len(front))

\* The orders a sequence of distinct elements can be put in.
Orderings(s) ==
  {p \in [1..Len(s) -> Range(s)] : \A i, j \in 1..Len(s) : p[i] = p[j] => i = j}

\* keys.sort((a, b) => new Date(a) - new Date(b)) on a host tz hours ahead of
\* UTC: the results the sort can give.  A comparison with an Invalid Date is
\* NaN, which sort takes as "equal"; when that makes the comparator
\* inconsistent (two keys that differ, each "equal" to a third) the order is
\* implementation-defined.
SortByDate(keys, tz) ==
  LET valid == {i \in 1..Len(keys) : DateValue(keys[i], tz) # NaN}
  IN  IF Cardinality(valid) = Len(keys) THEN {StableSortByDate(keys, tz)}
      ELSE IF \A i, j \in valid :
                DateValue(keys[i], tz) = DateValue(keys[j], tz) THEN {keys}
      ELSE Orderings(keys)

\* this.dates as the 'end' handler computes it from the keys of the index.
SortedDates(v, keys, tz) ==
  IF v = 1 THEN SortByDate(keys, tz) ELSE {SortLex(Range(keys))}

\* What the boundary path and the heatmap path can hold when the 'end' handler
\* looks: no file (or, for the heatmap, no path given), a JSON document, or a
\* file that cannot be read or is not JSON.
FileStates == {"missing", "valid", "corrupt"}

\* The parsed boundary document; the engine passes it on unread.
BoundaryDoc == "GeoJSON"

\* The parsed heatmap document of variant 2.
HeatmapDoc ==
  [dates  |-> << <<"2", "0", "0", "3", "-", "0", "1", "-", "0", "1">> >>,
   counts |-> <<7>>]

\* startServer() -> initializeData() -> loadData(csvPath, boundaryPath): the
\* promise executor opens the stream and registers the handlers, and
\* initializeData waits for the promise.
startServer ==
  /\ pc = "start"
  /\ pc' = "loading"
  /\ UNCHANGED <<variant, incidents, engineVars, dataLoaded, fault, resp>>

\* OnData without its place in the stream's life: rows still arrive after
\* 'end' (a second loadData on the shared instance).
OnDataAfterEnd(row) ==
  /\ Len(incidents) < MaxRows
  /\ LET incident == MakeIncident(variant, row)
     IN  /\ incidents' = Append(incidents, incident)
         /\ types' = types \cup {incident.type}
         /\ categories' = categories \cup {incident.category}
         /\ provinces' = provinces \cup {incident.province}
         /\ dateIndex' = MapPush(dateIndex, incident.date, incident)
  /\ UNCHANGED <<variant, pc, allIncidents, dates, iraqBoundary, heatmapData,
                 isLoaded, dataLoaded, fault, resp>>

\* .on('data', row => ...): one row of the CSV.
OnData(row) ==
  /\ pc = "loading"
  /\ Len(incidents) < MaxRows
  /\ LET incident == MakeIncident(variant, row)
     IN  /\ incidents' = Append(incidents, incident)
         /\ types' = types \cup {incident.type}
         /\ categories' = categories \cup {incident.category}
         /\ provinces' = provinces \cup {incident.province}
         /\ dateIndex' = MapPush(dateIndex, incident.date, incident)
  /\ UNCHANGED <<variant, pc, allIncidents, dates, iraqBoundary, heatmapData,
                 isLoaded, dataLoaded, fault, resp>>

\* .on('end', () => ...): publishes the list and the sorted dates, reads the
\* boundary (and, in variant 2, the heatmap), sets isLoaded and resolves.
\* JSON.parse(fs.readFileSync(...)) throws on a file that exists and cannot
\* be read or parsed; nothing catches it in an event handler, so the process
\* dies of the uncaught exception with the promise still pending.
OnEnd(boundary, heatmap, tz) ==
  /\ pc = "loading"
  /\ allIncidents' = incidents
  /\ dates' \in SortedDates(variant, MapKeys(dateIndex), tz)
  /\ iraqBoundary' = IF boundary = "valid" THEN BoundaryDoc ELSE iraqBoundary
  /\ heatmapData' = IF boundary # "corrupt" /\ heatmap = "valid"
                    THEN <<HeatmapDoc>> ELSE heatmapData
  /\ IF boundary = "corrupt"
     THEN /\ fault' = "boundary"
          /\ pc' = "crashed"
          /\ isLoaded' = isLoaded
     ELSE IF heatmap = "corrupt"
     THEN /\ fault' = "heatmap"
          /\ pc' = "crashed"
          /\ isLoaded' = isLoaded
     ELSE /\ fault' = fault
          /\ pc' = "resolved"
          /\ isLoaded' = TRUE
  /\ UNCHANGED <<variant, incidents, dateIndex, types, categories, provinces,
                 dataLoaded, resp>>

\* .on('error', reject): the csv parser's stream reports an error.
OnError ==
  /\ pc = "loading"
  /\ fault' = "parse"
  /\ pc' = "rejected"
  /\ UNCHANGED <<variant, incidents, engineVars, dataLoaded, resp>>

\* fs.createReadStream(csvPath) fails (no such file, a read error).  pipe()
\* returns the parser and does not forward errors, so the file stream has no
\* 'error' listener: the event is thrown as an uncaught exception and the
\* process dies with the promise still pending.
ReadStreamError ==
  /\ pc = "loading"
  /\ fault' = "read"
  /\ pc' = "crashed"
  /\ UNCHANGED <<variant, incidents, engineVars, dataLoaded, resp>>

\* initializeData after `await loadData(...)` fulfils.
initializeData ==
  /\ pc = "resolved"
  /\ dataLoaded' = TRUE
  /\ pc' = "initialized"
  /\ UNCHANGED <<variant, incidents, engineVars, fault, resp>>

\* initializeData's catch: process.exit(1).
initializeDataCatch ==
  /\ pc = "rejected"
  /\ pc' = "exited"
  /\ UNCHANGED <<variant, incidents, engineVars, dataLoaded, fault, resp>>

\* startServer after `await initializeData()`: app.listen(PORT).
listen ==
  /\ pc = "initialized"
  /\ pc' = "listening"
  /\ UNCHANGED <<variant, incidents, engineVars, dataLoaded, fault, resp>>

Load ==
  \/ startServer
  \/ \E row \in Rows : OnData(row)
  \/ \E boundary \in FileStates, tz \in TZOffsets :
       \E heatmap \in (IF variant = 2 THEN FileStates ELSE {"missing"}) :
         OnEnd(boundary, heatmap, tz)
  \/ OnError
  \/ ReadStreamError
  \/ initializeData
  \/ initializeDataCatch
  \/ listen

(***************************************************************************)
(* Plain objects used as counters                                          *)
(***************************************************************************)
\* An object is the sequence of its own properties [k, v] in the order
\* for...in and Object.keys list them: the keys that are array indices first,
\* in ascending numeric order, then the other keys in insertion order.

\* The modelled keys that are canonical array indices ("7"), in ascending
\* numeric order.
IndexKeys == <<"7">>

IsIndexKey(k) == \E n \in 1..Len(IndexKeys) : IndexKeys[n] = k

IndexRank(k) == CHOOSE n \in 1..Len(IndexKeys) : IndexKeys[n] = k

\* The modelled names every plain object inherits from Object.prototype: a
\* read of o[k] finds the inherited function when o has no own property k.
ProtoNames == {"constructor"}

\* The values that are falsy in !o[k]: 0 and NaN.
Falsy(v) == v = 0 \/ v = NaN

ObjHas(o, k) == \E i \in 1..Len(o) : o[i].k = k

ObjGet(o, k) == o[CHOOSE i \in 1..Len(o) : o[i].k = k].v

\* o[k] = v
ObjSet(o, k, v) ==
  IF ObjHas(o, k)
  THEN [i \in 1..Len(o) |-> IF o[i].k = k THEN [k |-> k, v |-> v] ELSE o[i]]
  ELSE IF IsIndexKey(k)
  THEN LET before(e) == IsIndexKey(e.k) /\ IndexRank(e.k) < IndexRank(k)
           after(e)  == ~before(e)
       IN  SelectSeq(o, before) \o <<[k |-> k, v |-> v]>> \o SelectSeq(o, after)
  ELSE Append(o, [k |-> k, v |-> v])

\* o[k]++ : a missing property is undefined, an inherited one a function, and
\* undefined + 1 and function + 1 are NaN.
ObjIncrement(o, k) ==
  IF ObjHas(o, k) /\ ObjGet(o, k) # NaN THEN ObjSet(o, k, ObjGet(o, k) + 1)
  ELSE ObjSet(o, k, NaN)

ObjKeys(o) == [i \in 1..Len(o) |-> o[i].k]

ObjValues(o) == [i \in 1..Len(o) |-> o[i].v]

(***************************************************************************)
(* The query methods of DataProcessor                                      *)
(***************************************************************************)
getDates == dates

\* ApplyFilters with the province filter left out.
ApplyFiltersNoProvince(list, filters) ==
  LET byType(i)     == i.type = filters.type
      byCategory(i) == i.category = filters.category
      l1 == IF filters.type # "" /\ filters.type # "all"
            THEN SelectSeq(list, byType) ELSE list
  IN  IF filters.category # "" /\ filters.category # "all"
      THEN SelectSeq(l1, byCategory) ELSE l1

\* The three filters of getIncidents, applied one after the other; a filter
\* that is absent or empty ("") or 'all' is skipped.
ApplyFilters(list, filters) ==
  LET byType(i)     == i.type = filters.type
      byCategory(i) == i.category = filters.category
      byProvince(i) == i.province = filters.province
      l1 == IF filters.type # "" /\ filters.type # "all"
            THEN SelectSeq(list, byType) ELSE list
      l2 == IF filters.category # "" /\ filters.category # "all"
            THEN SelectSeq(l1, byCategory) ELSE l1
  IN  IF filters.province # "" /\ filters.province # "all"
      THEN SelectSeq(l2, byProvince) ELSE l2

getIncidents(date, filters) ==
  ApplyFilters(MapGetOrEmpty(dateIndex, date), filters)

\* The classification strings of the model in the order sort() puts them.
Vocabulary ==
  <<"7", "Baghdad", "Basra", "Direct Fire", "Enemy Action",
    "Explosive Hazard", "IED", "N/A", "Unknown", "constructor">>

\* Array.from(set).sort()
SortedArray(set) ==
  LET member(x) == x \in set IN SelectSeq(Vocabulary, member)

getMetadata ==
  [types      |-> SortedArray(types),
   categories |-> SortedArray(categories),
   provinces  |-> SortedArray(provinces)]

\* treemapData after the counting loop has gone through the list.  For a
\* type that names an inherited property, treemapData[type] is the inherited
\* function: it is truthy, so no own property is created, and the counter is
\* kept on that function and not in treemapData.
RECURSIVE TreemapCounts(_)
TreemapCounts(list) ==
  IF list = <<>> THEN <<>>
  ELSE LET t    == TreemapCounts(SubSeq(list, 1, Len(list) - 1))
           type == list[Len(list)].type
           cat  == list[Len(list)].category
           t1   == IF ObjHas(t, type) THEN t ELSE ObjSet(t, type, <<>>)
           c    == ObjGet(t1, type)
           c1   == IF ObjHas(c, cat)
                   THEN IF Falsy(ObjGet(c, cat)) THEN ObjSet(c, cat, 0) ELSE c
                   ELSE IF cat \in ProtoNames THEN c ELSE ObjSet(c, cat, 0)
       IN  IF ~ObjHas(t, type) /\ type \in ProtoNames THEN t
           ELSE ObjSet(t1, type, ObjIncrement(c1, cat))

\* The series built from treemapData.
TreemapSeries ==
  LET t == TreemapCounts(allIncidents)
  IN  [i \in 1..Len(t) |->
         [name |-> t[i].k,
          data |-> [j \in 1..Len(t[i].v) |->
                      [x |-> t[i].v[j].k, y |-> t[i].v[j].v]]]]

\* Variant 1 returns the series, variant 2 wraps it in an object.
getTreemapData ==
  IF variant = 1 THEN TreemapSeries ELSE [series |-> TreemapSeries]

\* The seven labels of the radar charts, in the order of the object literal.
BucketLabels ==
  <<"Early Night (00:00-03:59)", "Early Morning (04:00-08:59)",
    "Mid-Morning (09:00-11:59)", "Early Afternoon (12:00-14:59)",
    "Late Afternoon (15:00-17:59)", "Evening (18:00-21:59)",
    "Late Night (22:00-23:59)">>

RadarZero == [i \in 1..Len(BucketLabels) |-> [k |-> BucketLabels[i], v |-> 0]]

\* timeCategory for an hour: '' when no branch of the if-chain matches.
TimeCategory(hour) ==
  IF hour >= 0 /\ hour < 4 THEN BucketLabels[1]
  ELSE IF hour >= 4 /\ hour < 9 THEN BucketLabels[2]
  ELSE IF hour >= 9 /\ hour < 12 THEN BucketLabels[3]
  ELSE IF hour >= 12 /\ hour < 15 THEN BucketLabels[4]
  ELSE IF hour >= 15 /\ hour < 18 THEN BucketLabels[5]
  ELSE IF hour >= 18 /\ hour < 22 THEN BucketLabels[6]
  ELSE IF hour >= 22 /\ hour < 24 THEN BucketLabels[7]
  ELSE ""

\* radarDataEnemy and radarDataExplosive after the loop has gone through the
\* list.
RECURSIVE RadarCounts(_)
RadarCounts(list) ==
  IF list = <<>> THEN [enemy |-> RadarZero, explosive |-> RadarZero]
  ELSE LET r        == RadarCounts(SubSeq(list, 1, Len(list) - 1))
           incident == list[Len(list)]
           hour     == parseInt(Split(incident.time, ":")[1])
           timeCategory == TimeCategory(hour)
       IN  IF incident.time = <<>> THEN r
           ELSE IF incident.type = "Enemy Action"
           THEN [r EXCEPT !.enemy = ObjIncrement(@, timeCategory)]
           ELSE IF incident.type = "Explosive Hazard"
           THEN [r EXCEPT !.explosive = ObjIncrement(@, timeCategory)]
           ELSE r

getRadarData ==
  LET r == RadarCounts(allIncidents)
  IN  [enemy     |-> [categories |-> ObjKeys(r.enemy),
                      values     |-> ObjValues(r.enemy)],
       explosive |-> [categories |-> ObjKeys(r.explosive),
                      values     |-> ObjValues(r.explosive)]]

\* Variant 1 counts the incidents per date string and lists the distinct
\* non-empty date strings in sort() order; variant 2 hands out the heatmap
\* document, or empty sequences when none was loaded.
getHeatmapData ==
  IF variant = 1
  THEN LET isDate(i)  == i.date # <<>>
           dated      == SelectSeq(allIncidents, isDate)
           uniqueDates == SortLex({dated[i].date : i \in 1..Len(dated)})
           count(d)   == Cardinality({i \in 1..Len(dated) : dated[i].date = d})
       IN  [dates  |-> uniqueDates,
            counts |-> [i \in 1..Len(uniqueDates) |-> count(uniqueDates[i])]]
  ELSE IF heatmapData # <<>>
  THEN [dates |-> heatmapData[1].dates, counts |-> heatmapData[1].counts]
  ELSE [dates |-> <<>>, counts |-> <<>>]

getBoundary == iraqBoundary

(***************************************************************************)
(* The HTTP routes of server.js                                            *)
(***************************************************************************)
\* ensureDataLoaded without its check: next() is always called.
ensureDataLoadedAlwaysNext == TRUE

\* ensureDataLoaded: TRUE when it calls next(), FALSE when it answers 503.
ensureDataLoaded == dataLoaded

\* The answer of ensureDataLoaded while the data is not loaded.
NotReady(op) ==
  [op |-> op, status |-> 503,
   body |-> "Server is still loading data. Please try again in a moment."]

Ok(op, body) == [op |-> op, status |-> 200, body |-> body]

\* What each route answers to a request handled in the current state.
DatesResponse ==
  IF ~ensureDataLoaded THEN NotReady("dates")
  ELSE Ok("dates", [dates |-> getDates])

MetadataResponse ==
  IF ~ensureDataLoaded THEN NotReady("metadata")
  ELSE Ok("metadata", getMetadata)

IncidentsResponse(date, filters) ==
  IF ~ensureDataLoaded THEN NotReady("incidents")
  ELSE LET found == getIncidents(date, filters)
       IN  [op |-> "incidents", status |-> 200, date |-> date,
            filters |-> filters,
            body |-> [date |-> date, count |-> Len(found), incidents |-> found]]

TreemapResponse ==
  IF ~ensureDataLoaded THEN NotReady("treemap")
  ELSE Ok("treemap", [series |-> getTreemapData])

RadarResponse ==
  IF ~ensureDataLoaded THEN NotReady("radar")
  ELSE Ok("radar", getRadarData)

HeatmapResponse ==
  IF ~ensureDataLoaded THEN NotReady("heatmap")
  ELSE Ok("heatmap", getHeatmapData)

BoundaryResponse ==
  IF ~ensureDataLoaded THEN NotReady("boundary")
  ELSE IF getBoundary = "null"
  THEN [op |-> "boundary", status |-> 404, body |-> "Boundary data not found"]
  ELSE Ok("boundary", getBoundary)

\* The dates and filters the modelled clients ask for.
\* "2007-12-05" and "1999-01-01" (the date of no row)
QueryDates ==
  { <<"2", "0", "0", "7", "-", "1", "2", "-", "0", "5">>,
    <<"1", "9", "9", "9", "-", "0", "1", "-", "0", "1">> }

Filters(type, category, province) ==
  [type |-> type, category |-> category, province |-> province]

QueryFilters ==
  { Filters("", "", ""),
    Filters("all", "", "all"),
    Filters("Enemy Action", "", "Baghdad"),
    Filters("", "IED", "") }

NoFilters == Filters("", "", "")

\* The sequence back to front (Array.prototype.reverse, which works in place).
Reverse(seq) == [i \in 1..Len(seq) |-> seq[Len(seq) + 1 - i]]

\* RouteDates answering newest first by reversing the array getDates hands
\* out, which is this.dates itself.
RouteDatesReversing ==
  /\ pc = "listening"
  /\ dates' = Reverse(dates)
  /\ resp' = IF ~ensureDataLoaded THEN NotReady("dates")
             ELSE Ok("dates", [dates |-> dates'])
  /\ UNCHANGED <<variant, pc, incidents, allIncidents, dateIndex, types,
                 categories, provinces, iraqBoundary, heatmapData, isLoaded,
                 dataLoaded, fault>>

\* A request reaches a route only once app.listen has run.
RouteDates ==
  /\ pc = "listening"
  /\ resp' = DatesResponse
  /\ UNCHANGED <<variant, pc, incidents, engineVars, dataLoaded, fault>>

RouteMetadata ==
  /\ pc = "listening"
  /\ resp' = MetadataResponse
  /\ UNCHANGED <<variant, pc, incidents, engineVars, dataLoaded, fault>>

RouteIncidents(date, filters) ==
  /\ pc = "listening"
  /\ resp' = IncidentsResponse(date, filters)
  /\ UNCHANGED <<variant, pc, incidents, engineVars, dataLoaded, fault>>

RouteTreemap ==
  /\ pc = "listening"
  /\ resp' = TreemapResponse
  /\ UNCHANGED <<variant, pc, incidents, engineVars, dataLoaded, fault>>

RouteRadar ==
  /\ pc = "listening"
  /\ resp' = RadarResponse
  /\ UNCHANGED <<variant, pc, incidents, engineVars, dataLoaded, fault>>

RouteHeatmap ==
  /\ pc = "listening"
  /\ resp' = HeatmapResponse
  /\ UNCHANGED <<variant, pc, incidents, engineVars, dataLoaded, fault>>

RouteBoundary ==
  /\ pc = "listening"
  /\ resp' = BoundaryResponse
  /\ UNCHANGED <<variant, pc, incidents, engineVars, dataLoaded, fault>>

Query ==
  \/ RouteDates
  \/ RouteMetadata
  \/ \E date \in QueryDates, filters \in QueryFilters :
       RouteIncidents(date, filters)
  \/ RouteTreemap
  \/ RouteRadar
  \/ RouteHeatmap
  \/ RouteBoundary

Next == Load \/ Query

Spec == Init /\ [][Next]_vars

(***************************************************************************)
(* The engine's lifecycle                                                  *)
(***************************************************************************)
\* The state of the promise loadData returned.
LoadPromise ==
  IF pc = "start" THEN "none"
  ELSE IF pc \in {"rejected", "exited"} THEN "rejected"
  ELSE IF pc \in {"resolved", "initialized", "listening"} THEN "fulfilled"
  ELSE "pending"

\* NotLoaded before loadData is called, Loading until it settles, Ready once
\* isLoaded is set, Failed once the promise is rejected.  A process that died
\* of an uncaught exception never left Loading.
EngineState ==
  IF LoadPromise = "rejected" THEN "Failed"
  ELSE IF isLoaded THEN "Ready"
  ELSE IF pc = "start" THEN "NotLoaded"
  ELSE "Loading"

\* The responses the seven routes give to the modelled requests in the
\* current state.
AllResponses ==
  {DatesResponse, MetadataResponse, TreemapResponse, RadarResponse,
   HeatmapResponse, BoundaryResponse}
    \cup {IncidentsResponse(d, f) : d \in QueryDates, f \in QueryFilters}

RECURSIVE SumSeq(_)
SumSeq(seq) == IF seq = <<>> THEN 0 ELSE seq[1] + SumSeq(Tail(seq))

(***************************************************************************)
(* Claims                                                                  *)
(***************************************************************************)
\* C1: while the load has not completed (NotLoaded, Loading or Failed) every
\* one of the seven query routes answers 503 NotReady, which is no successful
\* (200) answer, even an empty one; and an answer other than NotReady, whether
\* one a route would give or one that was sent, is given only by a Ready engine
\* whose list is the complete one.
C1_NotReadyBeforeLoad ==
  /\ EngineState # "Ready" =>
       \A r \in AllResponses :
         /\ r.status = 503
         /\ r = NotReady(r.op)
         /\ r # Ok(r.op, <<>>)
  /\ \A r \in AllResponses \cup ({resp} \ {NoResponse}) :
       r.status # 503 =>
         /\ EngineState = "Ready"
         /\ allIncidents = incidents
         /\ Len(dates) = Len(dateIndex)

\* C1 witness: the stream is half way, the index already holds a bucket the
\* engine would hand out, and the routes answer NotReady.
C1_Witness ==
  /\ pc = "loading"
  /\ Len(incidents) = 2
  /\ \E d \in QueryDates :
       /\ getIncidents(d, NoFilters) # <<>>
       /\ IncidentsResponse(d, NoFilters) = NotReady("incidents")
  /\ DatesResponse = NotReady("dates")

\* C2: the lifecycle state changes only NotLoaded -> Loading, Loading -> Ready
\* or Loading -> Failed; Ready and Failed are never left, and once Ready the
\* index is not fed again.
C2_LifecycleStep ==
  /\ \/ EngineState' = EngineState
     \/ <<EngineState, EngineState'>> \in
          { <<"NotLoaded", "Loading">>, <<"Loading", "Ready">>,
            <<"Loading", "Failed">> }
  /\ EngineState = "Ready" => (incidents' = incidents /\ dateIndex' = dateIndex)

C2_Lifecycle == [][C2_LifecycleStep]_vars

\* C2 witness: the engine became Ready, the server went on to listen and has
\* answered a query.
C2_Witness ==
  /\ EngineState = "Ready"
  /\ pc = "listening"
  /\ Len(allIncidents) = MaxRows
  /\ resp.status = 200

\* C3: when the record stream fails during load (the file cannot be read, or
\* the parser reports an error), load's promise is rejected, the engine is not
\* ready, dataLoaded stays false and the server does not listen.
C3_StreamFailureRejects ==
  fault \in {"read", "parse"} =>
    /\ LoadPromise = "rejected"
    /\ ~isLoaded
    /\ ~dataLoaded
    /\ pc # "listening"

\* C4: whenever the record stream ended without a failure, load completes and
\* the engine is Ready whether the boundary file is valid, missing or cannot be
\* read or parsed; and with no boundary loaded the boundary route answers 404.
C4_BoundaryFailureNonFatal ==
  /\ (pc \notin {"start", "loading"} /\ fault \in {"none", "boundary"}) =>
       /\ isLoaded
       /\ LoadPromise = "fulfilled"
  /\ (dataLoaded /\ iraqBoundary = "null") => BoundaryResponse.status = 404

\* C5: a query step (any of the seven routes, with any date and filters)
\* leaves the full list, the date index, the three distinct-value sets, the
\* sorted date list and the boundary as they were, together with everything
\* else the answers are computed from (the heatmap document, the readiness
\* flags), so every query answers after it what it answered before it.
C5_QueryStep ==
  Query =>
    /\ UNCHANGED <<allIncidents, dateIndex, types, categories, provinces, dates,
                   iraqBoundary>>
    /\ UNCHANGED <<variant, heatmapData, isLoaded, dataLoaded>>
    /\ DatesResponse' = DatesResponse
    /\ MetadataResponse' = MetadataResponse
    /\ BoundaryResponse' = BoundaryResponse
    /\ \A d \in QueryDates, f \in QueryFilters :
         IncidentsResponse(d, f)' = IncidentsResponse(d, f)

C6_DatesCanonical ==
  \A i \in 1..Len(incidents) :
    incidents[i].date # <<>> => IsCanonicalDate(incidents[i].date)

\* C7: after load, when every row had a timestamp, the date list is strictly
\* ascending by calendar day, has no duplicates and holds exactly the keys of
\* the date index.
C7_ListDatesAscending ==
  (isLoaded /\ \A i \in 1..Len(dateIndex) : dateIndex[i].key # <<>>) =>
    /\ \A i \in 1..(Len(dates) - 1) :
         CalendarDay(dates[i]) < CalendarDay(dates[i + 1])
    /\ \A i, j \in 1..Len(dates) : dates[i] = dates[j] => i = j
    /\ Range(dates) = Range(MapKeys(dateIndex))

\* C8: after load, a lookup without filters returns exactly the records whose
\* calendar day is the day asked for, in source order, and the buckets of the
\* listed dates add up to the full list.
C8_IndexPartitions ==
  isLoaded =>
    /\ \A d \in QueryDates :
         LET sameDay(i) == CalendarDay(i.date) = CalendarDay(d)
         IN  getIncidents(d, NoFilters) = SelectSeq(allIncidents, sameDay)
    /\ SumSeq([i \in 1..Len(dates) |-> Len(getIncidents(dates[i], NoFilters))])
         = Len(allIncidents)

\* The filters the lookup is checked with.
ClaimFilters ==
  [type     : {"", "all", "Enemy Action"},
   category : {"", "IED"},
   province : {"", "all", "Baghdad"}]

\* The record passes every filter that applies (one that is neither absent
\* nor 'all').
Matches(i, f) ==
  /\ f.type \notin {"", "all"} => i.type = f.type
  /\ f.category \notin {"", "all"} => i.category = f.category
  /\ f.province \notin {"", "all"} => i.province = f.province

\* C9: getIncidents(date, filters) is the date's bucket, in its order, cut down
\* to the records that pass every applied filter; a date without bucket gives
\* the empty sequence; filtering by type and then by province, by province and
\* then by type, or by both at once gives the same records; and the incidents
\* route answers 200 with exactly these records and their number.
C9_FilteredLookup ==
  /\ \A d \in QueryDates, f \in ClaimFilters :
       LET bucket      == MapGetOrEmpty(dateIndex, d)
           pass(i)     == Matches(i, f)
           byType      == Filters(f.type, "", "")
           byProvince  == Filters("", "", f.province)
           byBoth      == Filters(f.type, "", f.province)
       IN  /\ getIncidents(d, f) = SelectSeq(bucket, pass)
           /\ ~MapHas(dateIndex, d) => getIncidents(d, f) = <<>>
           /\ ApplyFilters(getIncidents(d, byType), byProvince)
                = getIncidents(d, byBoth)
           /\ ApplyFilters(getIncidents(d, byProvince), byType)
                = getIncidents(d, byBoth)
  /\ resp.op = "incidents" =>
       LET pass(i) == Matches(i, resp.filters)
           expected == SelectSeq(MapGetOrEmpty(dateIndex, resp.date), pass)
       IN  /\ resp.status = 200
           /\ resp.body.incidents = expected
           /\ resp.body.count = Len(expected)

\* C9 witness: the incidents route has answered a lookup by type and province
\* that kept some records of the bucket and dropped others.
C9_Witness ==
  /\ resp.op = "incidents"
  /\ resp.filters = Filters("Enemy Action", "", "Baghdad")
  /\ resp.body.count >= 1
  /\ resp.body.count < Len(MapGetOrEmpty(dateIndex, resp.date))

\* C10: after load, the seven enemy-action counts plus the seven
\* explosive-hazard counts add up to the number of records of these two types
\* that have a time.
C10_RadarTotals ==
  isLoaded =>
    LET radar == getRadarData
        timed == {i \in 1..Len(allIncidents) :
                    /\ allIncidents[i].type \in {"Enemy Action", "Explosive Hazard"}
                    /\ allIncidents[i].time # <<>>}
    IN  SumSeq(SubSeq(radar.enemy.values, 1, 7))
          + SumSeq(SubSeq(radar.explosive.values, 1, 7)) = Cardinality(timed)

\* The clock-hour intervals [lo, hi) of the seven buckets, in their order.
BucketIntervals ==
  <<[lo |-> 0, hi |-> 4], [lo |-> 4, hi |-> 9], [lo |-> 9, hi |-> 12],
    [lo |-> 12, hi |-> 15], [lo |-> 15, hi |-> 18], [lo |-> 18, hi |-> 22],
    [lo |-> 22, hi |-> 24]>>

\* The hour component of a record's time.
HourOf(i) == parseInt(Split(i.time, ":")[1])

\* C11: after load, for each of the two types getRadarData gives exactly the
\* seven bucket labels in their fixed order and seven counts aligned with
\* them, whatever the data; the count at a label is the number of records of
\* the type with a time whose hour lies in the label's interval; and each
\* hour 0..23 lies in exactly one interval, the one of the label the code
\* picks.
C11_RadarFixedLabels ==
  /\ \A h \in 0..23 :
       \E n \in 1..7 :
         /\ BucketIntervals[n].lo <= h /\ h < BucketIntervals[n].hi
         /\ TimeCategory(h) = BucketLabels[n]
         /\ \A m \in 1..7 :
              (BucketIntervals[m].lo <= h /\ h < BucketIntervals[m].hi) => m = n
  /\ isLoaded =>
       LET radar == getRadarData
           inBucket(type, n) ==
             {i \in 1..Len(allIncidents) :
                /\ allIncidents[i].type = type
                /\ allIncidents[i].time # <<>>
                /\ BucketIntervals[n].lo <= HourOf(allIncidents[i])
                /\ HourOf(allIncidents[i]) < BucketIntervals[n].hi}
           good(chart, type) ==
             /\ chart.categories = BucketLabels
             /\ Len(chart.values) = 7
             /\ \A n \in 1..7 :
                  chart.values[n] = Cardinality(inBucket(type, n))
       IN  /\ good(radar.enemy, "Enemy Action")
           /\ good(radar.explosive, "Explosive Hazard")

\* The radar output as C11 says it, when every timed record of the two types
\* has its hour in 0..23.
C11_HoursInRange ==
  (\A i \in 1..Len(allIncidents) :
     (allIncidents[i].time # <<>>
        /\ allIncidents[i].type \in {"Enemy Action", "Explosive Hazard"}) =>
       HourOf(allIncidents[i]) \in 0..23)
  => C11_RadarFixedLabels

\* C12: after load, getHeatmapData gives two sequences of one length computed
\* from the loaded records: the dates are strictly ascending by calendar day
\* and none is repeated, counts[i] is the number of records whose date is
\* dates[i] (so no count is zero), and the counts add up to the number of
\* records that have a date.
C12_HeatmapFromRecords ==
  isLoaded =>
    LET heatmap == getHeatmapData
        dated   == {i \in 1..Len(allIncidents) : allIncidents[i].date # <<>>}
    IN  /\ Len(heatmap.dates) = Len(heatmap.counts)
        /\ \A i \in 1..(Len(heatmap.dates) - 1) :
             CalendarDay(heatmap.dates[i]) < CalendarDay(heatmap.dates[i + 1])
        /\ \A i, j \in 1..Len(heatmap.dates) :
             heatmap.dates[i] = heatmap.dates[j] => i = j
        /\ \A i \in 1..Len(heatmap.counts) :
             /\ heatmap.counts[i] =
                  Cardinality({n \in dated :
                                 allIncidents[n].date = heatmap.dates[i]})
             /\ heatmap.counts[i] > 0
        /\ SumSeq(heatmap.counts) = Cardinality(dated)

\* The (type, category) pairs of the loaded records.
RecordPairs ==
  {<<allIncidents[i].type, allIncidents[i].category>> :
     i \in 1..Len(allIncidents)}

\* The number of loaded records with the pair.
PairCount(pair) ==
  Cardinality({i \in 1..Len(allIncidents) :
                 <<allIncidents[i].type, allIncidents[i].category>> = pair})

\* C13: after load, every (type, category) pair of the records appears in the
\* treemap series exactly once, under the one group of its type, with the
\* number of records of the pair as its count; the series holds no other pair;
\* and the counts of all groups add up to the number of loaded records.
C13_TreemapTotal ==
  isLoaded =>
    LET series == TreemapSeries
        places(pair) ==
          {<<g, j>> \in (1..Len(series)) \X (1..MaxRows) :
             /\ j <= Len(series[g].data)
             /\ series[g].name = pair[1]
             /\ series[g].data[j].x = pair[2]}
    IN  /\ \A pair \in RecordPairs :
             /\ Cardinality(places(pair)) = 1
             /\ \A pl \in places(pair) :
                  series[pl[1]].data[pl[2]].y = PairCount(pair)
        /\ \A g \in 1..Len(series) : \A j \in 1..Len(series[g].data) :
             <<series[g].name, series[g].data[j].x>> \in RecordPairs
        /\ SumSeq([g \in 1..Len(series) |->
                     SumSeq([j \in 1..Len(series[g].data) |->
                               series[g].data[j].y])])
             = Len(allIncidents)

\* The treemap total as C13 says it, when no record's type or category names
\* a property inherited from Object.prototype.
C13_OwnNamesOnly ==
  (\A i \in 1..Len(allIncidents) :
     /\ allIncidents[i].type \notin ProtoNames
     /\ allIncidents[i].category \notin ProtoNames)
  => C13_TreemapTotal

\* The elements of a sequence in the order of their first occurrence.
RECURSIVE FirstSeen(_)
FirstSeen(seq) ==
  IF seq = <<>> THEN <<>>
  ELSE LET r    == FirstSeen(SubSeq(seq, 1, Len(seq) - 1))
           last == seq[Len(seq)]
       IN  IF \E i \in 1..Len(r) : r[i] = last THEN r ELSE Append(r, last)

\* C14: after load, the groups of the treemap series are the types in the
\* order in which each is first seen in the full list, and the pairs of a
\* group are the categories in the order in which each is first seen among
\* the records of the group's type.
C14_TreemapFirstSeenOrder ==
  isLoaded =>
    LET series == TreemapSeries
        typesSeen ==
          FirstSeen([i \in 1..Len(allIncidents) |-> allIncidents[i].type])
        categoriesSeen(type) ==
          LET ofType(i) == i.type = type
              recs      == SelectSeq(allIncidents, ofType)
          IN  FirstSeen([i \in 1..Len(recs) |-> recs[i].category])
    IN  /\ [g \in 1..Len(series) |-> series[g].name] = typesSeen
        /\ \A g \in 1..Len(series) :
             [j \in 1..Len(series[g].data) |-> series[g].data[j].x]
               = categoriesSeen(series[g].name)

\* The treemap order as C14 says it, when no record's type or category is an
\* array index or names a property inherited from Object.prototype.
C14_PlainNamesOnly ==
  (\A i \in 1..Len(allIncidents) :
     /\ allIncidents[i].type \notin ProtoNames
     /\ allIncidents[i].category \notin ProtoNames
     /\ ~IsIndexKey(allIncidents[i].type)
     /\ ~IsIndexKey(allIncidents[i].category))
  => C14_TreemapFirstSeenOrder

====
